---- MODULE Spec2Model ----
(***************************************************************************)
(* QuickLaunch: createExtension.ts, the generator of a Chrome extension    *)
(* for one bookmark URL.  The module models one run of main() as a state   *)
(* machine (both generations of the script kept in the repository: the one *)
(* that fills extensionTemplates/background.js and the one that renders    *)
(* the click handler inline), with the network and the file system as the  *)
(* nondeterministic environment, and the pure helpers (sanitizeForFilename,*)
(* the URL parser, String.prototype.replace) as operators on strings.      *)
(*                                                                         *)
(* Strings are TLA+ strings; a character is a string of length one.        *)
(***************************************************************************)
EXTENDS Integers, Sequences, FiniteSets, TLC

VARIABLES
    variant,      \* which generation of main() runs: "template" or "inline"
    argv,         \* process.argv from index 2 on
    pc,           \* position of main()
    exitCode,     \* process exit status; -1 while running
    out,          \* lines printed, in order: [stream, kind, text]
    requests,     \* URLs handed to fetch(), in order
    hostname,     \* fetchPageData's result
    pageTitle,    \* fetchPageData's result
    extensionDir, \* join(process.cwd(), 'quick-launch-' + safeTitle)
    dirExisted,   \* whether extensionDir existed before the run
    mkdirs,       \* directories created by the run
    files,        \* file name -> content, the files written by the run
    pageFetch,    \* what fetch(inputUrl) did: <<>> before it, then <<[threw, url]>>
    iconFetch,    \* what fetch(faviconUrl) did: <<>> before it, then
                  \* <<[threw, ok, status, bodyOk]>>
    sanIn,        \* sanitizer harness: the input string
    sanOut,       \* sanitizer harness: sanitizeForFilename(sanIn)
    sanOut2,      \* sanitizer harness: sanitizeForFilename(sanOut)
    sanPc         \* sanitizer harness: "off", "in", "once", "twice"

vars == <<variant, argv, pc, exitCode, out, requests, hostname, pageTitle,
          extensionDir, dirExisted, mkdirs, files, pageFetch, iconFetch,
          sanIn, sanOut, sanOut2, sanPc>>

mainVars == <<variant, argv, pc, exitCode, out, requests, hostname, pageTitle,
              extensionDir, dirExisted, mkdirs, files, pageFetch, iconFetch>>

sanVars == <<sanIn, sanOut, sanOut2, sanPc>>

(***************************************************************************)
(* Characters and strings                                                  *)
(***************************************************************************)

\* Longest string the sanitizer harness feeds to sanitizeForFilename.
MaxLen == 3

Ch(s, i) == SubSeq(s, i, i)

Slice(s, i, j) == IF i > j THEN "" ELSE SubSeq(s, i, j)

\* str.slice(i) with 1-based i
From(s, i) == Slice(s, i, Len(s))

Upper == {"A", "B", "C", "D", "E", "F", "G", "H", "I", "J", "K", "L", "M",
          "N", "O", "P", "Q", "R", "S", "T", "U", "V", "W", "X", "Y", "Z"}

Lower == {"a", "b", "c", "d", "e", "f", "g", "h", "i", "j", "k", "l", "m",
          "n", "o", "p", "q", "r", "s", "t", "u", "v", "w", "x", "y", "z"}

Digit == {"0", "1", "2", "3", "4", "5", "6", "7", "8", "9"}

LowerOf(c) ==
    CASE c = "A" -> "a" [] c = "B" -> "b" [] c = "C" -> "c" [] c = "D" -> "d"
      [] c = "E" -> "e" [] c = "F" -> "f" [] c = "G" -> "g" [] c = "H" -> "h"
      [] c = "I" -> "i" [] c = "J" -> "j" [] c = "K" -> "k" [] c = "L" -> "l"
      [] c = "M" -> "m" [] c = "N" -> "n" [] c = "O" -> "o" [] c = "P" -> "p"
      [] c = "Q" -> "q" [] c = "R" -> "r" [] c = "S" -> "s" [] c = "T" -> "t"
      [] c = "U" -> "u" [] c = "V" -> "v" [] c = "W" -> "w" [] c = "X" -> "x"
      [] c = "Y" -> "y" [] c = "Z" -> "z" [] OTHER -> c

\* The recursions on strings below split the string in halves, or jump from
\* one occurrence of a character to the next, so that their depth stays small.

RECURSIVE ToLowerCase(_)
ToLowerCase(s) ==
    IF Len(s) <= 1 THEN LowerOf(s)
    ELSE ToLowerCase(Slice(s, 1, Len(s) \div 2))
         \o ToLowerCase(From(s, Len(s) \div 2 + 1))

\* The least element of a non-empty set of numbers; 0 for the empty set.
Least(S) == IF S = {} THEN 0 ELSE CHOOSE m \in S : \A k \in S : m <= k

\* The greatest element of a non-empty set of numbers; 0 for the empty set.
Greatest(S) == IF S = {} THEN 0 ELSE CHOOSE m \in S : \A k \in S : m >= k

\* Index of the first character of s at or after i that is in set cs; 0 if none.
IndexOfAnyFrom(s, cs, i) == Least({j \in i..Len(s) : Ch(s, j) \in cs})

\* Index of the first occurrence of character c in s at or after i; 0 if none.
IndexOfFrom(s, c, i) == IndexOfAnyFrom(s, {c}, i)

IndexOf(s, c) == IndexOfFrom(s, c, 1)

\* Index of the last occurrence of character c in s; 0 if none.
LastIndexOf(s, c) == Greatest({j \in 1..Len(s) : Ch(s, j) = c})

\* Index at which pat first occurs in s at or after i; 0 if none.
IndexOfStrFrom(s, pat, i) ==
    Least({j \in i..(Len(s) - Len(pat) + 1) : Slice(s, j, j + Len(pat) - 1) = pat})

StartsWith(s, pat) ==
    Len(s) >= Len(pat) /\ Slice(s, 1, Len(pat)) = pat

AllIn(s, cs) == \A i \in 1..Len(s) : Ch(s, i) \in cs

(***************************************************************************)
(* sanitizeForFilename                                                     *)
(***************************************************************************)

\* The character class [\/\\?%*:|"<>]
IllegalChars == {"/", "\\", "?", "%", "*", ":", "|", "\"", "<", ">"}

\* \s, restricted to the white space the model's alphabets hold
WhiteSpace == {" ", "\t"}

\* .replace(/[\/\\?%*:|"<>]/, '') without the g flag: only the first match goes
RemoveFirstIllegal(s) ==
    LET i == IndexOfAnyFrom(s, IllegalChars, 1)
    IN  IF i = 0 THEN s ELSE Slice(s, 1, i - 1) \o From(s, i + 1)

\* .replace(/[\/\\?%*:|"<>]/g, '')
RECURSIVE RemoveIllegal(_)
RemoveIllegal(s) ==
    IF Len(s) <= 1 THEN (IF s \in IllegalChars THEN "" ELSE s)
    ELSE RemoveIllegal(Slice(s, 1, Len(s) \div 2))
         \o RemoveIllegal(From(s, Len(s) \div 2 + 1))

\* Index of the first character of s that is not white space; Len(s) + 1 if none.
FirstNonSpace(s) ==
    IF AllIn(s, WhiteSpace) THEN Len(s) + 1
    ELSE Least({j \in 1..Len(s) : Ch(s, j) \notin WhiteSpace})

\* Index of the last character of s that is not white space; 0 if none.
LastNonSpace(s) == Greatest({j \in 1..Len(s) : Ch(s, j) \notin WhiteSpace})

TrimStart(s) == From(s, FirstNonSpace(s))

TrimEnd(s) == Slice(s, 1, LastNonSpace(s))

\* .trim()
Trim(s) == TrimEnd(TrimStart(s))

\* What .replace(/\s+/g, '-') leaves of the character at i: a run of white
\* space gives one '-', at its first character.
RunReplaced(s, i) ==
    IF Ch(s, i) \notin WhiteSpace THEN Ch(s, i)
    ELSE IF i > 1 /\ Ch(s, i - 1) \in WhiteSpace THEN ""
    ELSE "-"

RECURSIVE ReplaceRunsBetween(_, _, _)
ReplaceRunsBetween(s, lo, hi) ==
    IF lo > hi THEN ""
    ELSE IF lo = hi THEN RunReplaced(s, lo)
    ELSE ReplaceRunsBetween(s, lo, (lo + hi) \div 2)
         \o ReplaceRunsBetween(s, (lo + hi) \div 2 + 1, hi)

\* .replace(/\s+/g, '-')
ReplaceWhiteSpaceRuns(s) == ReplaceRunsBetween(s, 1, Len(s))

sanitizeForFilename(str) ==
    ToLowerCase(ReplaceWhiteSpaceRuns(Trim(RemoveIllegal(str))))

(***************************************************************************)
(* new URL(input) without a base, and URLSearchParams                      *)
(*                                                                         *)
(* The WHATWG parser restricted to what the inputs of the model exercise:  *)
(* scheme detection, the special schemes' authority (credentials, host,    *)
(* port), opaque hosts and opaque paths of other schemes, query and        *)
(* fragment.  IPv4/IPv6 literals, IDNA and file: URLs are not modelled and *)
(* no input of the model uses them.                                        *)
(***************************************************************************)

SpecialSchemes == {"http", "https", "ftp", "ws", "wss"}

SchemeChars == Upper \cup Lower \cup Digit \cup {"+", "-", "."}

\* forbidden host code points (those a model string can hold)
ForbiddenHostChars ==
    {" ", "\t", "#", "/", ":", "<", ">", "?", "@", "[", "\\", "]", "^", "|"}

\* forbidden domain code points: the above and "%"
ForbiddenDomainChars == ForbiddenHostChars \cup {"%"}

DigitValue(c) ==
    CASE c = "0" -> 0 [] c = "1" -> 1 [] c = "2" -> 2 [] c = "3" -> 3
      [] c = "4" -> 4 [] c = "5" -> 5 [] c = "6" -> 6 [] c = "7" -> 7
      [] c = "8" -> 8 [] c = "9" -> 9 [] OTHER -> 0

RECURSIVE ParseDecimal(_)
ParseDecimal(s) ==
    IF s = "" THEN 0
    ELSE 10 * ParseDecimal(Slice(s, 1, Len(s) - 1)) + DigitValue(Ch(s, Len(s)))

DefaultPort(scheme) ==
    CASE scheme = "http" -> 80 [] scheme = "https" -> 443 [] scheme = "ftp" -> 21
      [] scheme = "ws" -> 80 [] scheme = "wss" -> 443 [] OTHER -> -1

HexDigit == Digit \cup {"A", "B", "C", "D", "E", "F", "a", "b", "c", "d", "e", "f"}

\* The character of a percent-encoded byte, for the bytes the inputs of the
\* model hold; any other byte is left encoded.
PercentDecodeByte(h) ==
    CASE h \in {"3A", "3a"} -> ":" [] h \in {"2F", "2f"} -> "/"
      [] h \in {"3F", "3f"} -> "?" [] h \in {"3D", "3d"} -> "="
      [] h = "20" -> " " [] h = "24" -> "$" [] h = "25" -> "%" [] h = "26" -> "&"
      [] h = "40" -> "@" [] OTHER -> "%" \o h

\* Percent-decoding: a "%" followed by two hex digits is a byte, any other
\* "%" stands for itself.  i: the first "%" of s (0: none).
RECURSIVE PercentDecode(_)
RECURSIVE PercentDecodeAt(_, _)
PercentDecodeAt(s, i) ==
    IF i = 0 THEN s
    ELSE IF i + 2 <= Len(s) /\ AllIn(Slice(s, i + 1, i + 2), HexDigit)
    THEN Slice(s, 1, i - 1) \o PercentDecodeByte(Slice(s, i + 1, i + 2))
         \o PercentDecode(From(s, i + 3))
    ELSE Slice(s, 1, i) \o PercentDecode(From(s, i + 1))

PercentDecode(s) == PercentDecodeAt(s, IndexOf(s, "%"))

\* s without the slashes and backslashes it starts with
SkipSlashes(s) ==
    IF AllIn(s, {"/", "\\"}) THEN ""
    ELSE From(s, Least({j \in 1..Len(s) : Ch(s, j) \notin {"/", "\\"}}))

FailedURL == [ok |-> FALSE, protocol |-> "", hostname |-> "", port |-> "", search |-> ""]

\* The query of noFrag (what follows the authority, less the fragment):
\* from "?" on; "" when the query is empty.
QueryOf(noFrag, q) ==
    IF q = 0 \/ q = Len(noFrag) THEN "" ELSE From(noFrag, q)

CutFragment(rest, h) == IF h = 0 THEN rest ELSE Slice(rest, 1, h - 1)

SearchAt(noFrag) == QueryOf(noFrag, IndexOf(noFrag, "?"))

\* url.search of rest, what follows the authority
SearchOf(rest) == SearchAt(CutFragment(rest, IndexOf(rest, "#")))

\* The parsed URL of a host and a port already split; at, colon: where the
\* authority held its last "@" and ":" (0: nowhere).
ParseHostPort(scheme, special, host, rawPort, at, colon, rest) ==
    IF ~AllIn(rawPort, Digit) \/ Len(rawPort) > 5 THEN FailedURL
    ELSE IF ParseDecimal(rawPort) > 65535 THEN FailedURL
    ELSE IF special /\ host = "" THEN FailedURL
    ELSE IF host = "" /\ (at # 0 \/ colon # 0) THEN FailedURL
    ELSE IF \E i \in 1..Len(host) :
                Ch(host, i) \in (IF special THEN ForbiddenDomainChars
                                 ELSE ForbiddenHostChars)
         THEN FailedURL
    ELSE [ok |-> TRUE,
          protocol |-> scheme \o ":",
          hostname |-> host,
          port |-> IF rawPort = "" \/ ParseDecimal(rawPort) = DefaultPort(scheme)
                   THEN "" ELSE rawPort,
          search |-> SearchOf(rest)]

\* hostport: the authority without its credentials; colon: its last ":".
\* The host of a special scheme is percent-decoded and lowercased; another
\* scheme's host is opaque.
SplitHostPort(scheme, special, hostport, at, colon, rest) ==
    ParseHostPort(scheme, special,
                  IF special
                  THEN ToLowerCase(PercentDecode(
                           IF colon = 0 THEN hostport ELSE Slice(hostport, 1, colon - 1)))
                  ELSE IF colon = 0 THEN hostport ELSE Slice(hostport, 1, colon - 1),
                  IF colon = 0 THEN "" ELSE From(hostport, colon + 1),
                  at, colon, rest)

StripCredentials(scheme, special, hostport, at, rest) ==
    SplitHostPort(scheme, special, hostport, at, LastIndexOf(hostport, ":"), rest)

\* Host and port of an authority; at: its last "@".
ParseAuthority(scheme, special, authority, at, rest) ==
    StripCredentials(scheme, special,
                     IF at = 0 THEN authority ELSE From(authority, at + 1),
                     at, rest)

\* body: what follows the scheme and the slashes; stop: where its authority ends.
SplitAuthority(scheme, special, body, stop) ==
    ParseAuthority(scheme, special,
                   IF stop = 0 THEN body ELSE Slice(body, 1, stop - 1),
                   LastIndexOf(IF stop = 0 THEN body ELSE Slice(body, 1, stop - 1), "@"),
                   IF stop = 0 THEN "" ELSE From(body, stop))

ParseHierarchical(scheme, special, body) ==
    SplitAuthority(scheme, special, body,
                   IndexOfAnyFrom(body,
                                  IF special THEN {"/", "\\", "?", "#"}
                                  ELSE {"/", "?", "#"},
                                  1))

ParseAfterScheme(scheme, afterScheme) ==
    IF scheme \in SpecialSchemes
    THEN ParseHierarchical(scheme, TRUE, SkipSlashes(afterScheme))
    ELSE IF StartsWith(afterScheme, "//")
    THEN ParseHierarchical(scheme, FALSE, From(afterScheme, 3))
    ELSE [ok |-> TRUE, protocol |-> scheme \o ":", hostname |-> "",
          port |-> "", search |-> SearchOf(afterScheme)]

\* s: the input without the white space around it; colon: its first ":".
ParseScheme(s, colon) ==
    IF colon < 2 THEN FailedURL
    ELSE IF Ch(s, 1) \notin (Upper \cup Lower) THEN FailedURL
    ELSE IF ~AllIn(Slice(s, 1, colon - 1), SchemeChars) THEN FailedURL
    ELSE ParseAfterScheme(ToLowerCase(Slice(s, 1, colon - 1)), From(s, colon + 1))

ParseTrimmed(s) == ParseScheme(s, IndexOf(s, ":"))

\* new URL(input): ok = FALSE stands for the TypeError it throws.
ParseURL(input) == ParseTrimmed(Trim(input))

RECURSIVE PlusToSpace(_)
PlusToSpace(s) ==
    IF Len(s) <= 1 THEN (IF s = "+" THEN " " ELSE s)
    ELSE PlusToSpace(Slice(s, 1, Len(s) \div 2))
         \o PlusToSpace(From(s, Len(s) \div 2 + 1))

SplitPair(seg, eq) ==
    << PercentDecode(PlusToSpace(IF eq = 0 THEN seg ELSE Slice(seg, 1, eq - 1))),
       PercentDecode(PlusToSpace(IF eq = 0 THEN "" ELSE From(seg, eq + 1))) >>

\* One name=value pair of a query string.
ParsePair(seg) == SplitPair(seg, IndexOf(seg, "="))

\* application/x-www-form-urlencoded parsing of a query without its "?"
RECURSIVE ParseQuery(_)
RECURSIVE SplitQuery(_, _)
SplitQuery(q, amp) ==
    IF amp = 0 THEN <<ParsePair(q)>>
    ELSE IF amp = 1 THEN ParseQuery(From(q, 2))
    ELSE <<ParsePair(Slice(q, 1, amp - 1))>> \o ParseQuery(From(q, amp + 1))

ParseQuery(q) == IF q = "" THEN <<>> ELSE SplitQuery(q, IndexOf(q, "&"))

\* url.searchParams
searchParams(u) == ParseQuery(From(u.search, 2))

\* Index of the first pair of params at or after i named name; 0 if none.
RECURSIVE FirstNamed(_, _, _)
FirstNamed(params, name, i) ==
    IF i > Len(params) THEN 0
    ELSE IF params[i][1] = name THEN i
    ELSE FirstNamed(params, name, i + 1)

GetAt(params, i) ==
    IF i = 0 THEN [found |-> FALSE, value |-> ""]
    ELSE [found |-> TRUE, value |-> params[i][2]]

\* searchParams.get(name): the first value; null is modelled by found = FALSE,
\* which is also what searchParams.has(name) answers
Get(params, name) == GetAt(params, FirstNamed(params, name, 1))

(***************************************************************************)
(* String.prototype.replace(searchString, replaceString)                   *)
(***************************************************************************)

\* GetSubstitution for a string pattern (no captures, no named groups):
\* $$ is a dollar sign, $& the match, $' what follows the match; every other
\* "$" stands for itself.  The fourth pattern, dollar-backquote (what precedes
\* the match), is left out: no string of the model holds a backquote.
\* i: the first "$" of replacement (0: none).
RECURSIVE GetSubstitution(_, _, _, _)
RECURSIVE SubstituteAt(_, _, _, _, _)
SubstituteAt(matched, str, position, replacement, i) ==
    IF i = 0 \/ i = Len(replacement) THEN replacement
    ELSE IF Ch(replacement, i + 1) = "$"
    THEN Slice(replacement, 1, i)
         \o GetSubstitution(matched, str, position, From(replacement, i + 2))
    ELSE IF Ch(replacement, i + 1) = "&"
    THEN Slice(replacement, 1, i - 1) \o matched
         \o GetSubstitution(matched, str, position, From(replacement, i + 2))
    ELSE IF Ch(replacement, i + 1) = "'"
    THEN Slice(replacement, 1, i - 1) \o From(str, position + Len(matched))
         \o GetSubstitution(matched, str, position, From(replacement, i + 2))
    ELSE Slice(replacement, 1, i)
         \o GetSubstitution(matched, str, position, From(replacement, i + 1))

GetSubstitution(matched, str, position, replacement) ==
    SubstituteAt(matched, str, position, replacement, IndexOf(replacement, "$"))

\* str.replace(searchString, replaceString): the first occurrence only
Replace(str, searchString, replaceString) ==
    LET position == IndexOfStrFrom(str, searchString, 1)
    IN  IF position = 0 THEN str
        ELSE Slice(str, 1, position - 1)
             \o GetSubstitution(searchString, str, position, replaceString)
             \o From(str, position + Len(searchString))

(***************************************************************************)
(* fetchPageData                                                           *)
(***************************************************************************)

AuthHost == "accounts.google.com"

\* The identity-provider special case, inside fetchPageData's try block.
\* threw: an exception left the block (never, here: the inner catch holds it).
ContinueHostSkipped(resolvedParsed) ==
    [threw |-> FALSE, hostname |-> resolvedParsed.hostname]

\* new URL(continueParam) and what follows it, within the inner try
ContinueUrlHost(resolvedParsed, continueUrl) ==
    IF continueUrl.ok
    THEN [threw |-> FALSE, hostname |-> continueUrl.hostname]
    ELSE [threw |-> FALSE, hostname |-> resolvedParsed.hostname]

ContinueUrlHostUncaught(resolvedParsed, continueUrl) ==
    [threw |-> ~continueUrl.ok, hostname |-> continueUrl.hostname]

ContinueParamHostUncaught(resolvedParsed, continueParam) ==
    IF resolvedParsed.hostname = AuthHost /\ continueParam.found
       /\ continueParam.value # ""
    THEN ContinueUrlHostUncaught(resolvedParsed, ParseURL(continueParam.value))
    ELSE [threw |-> FALSE, hostname |-> resolvedParsed.hostname]

\* continueParam: searchParams.get('continue'); found is what has() answers
ContinueParamHost(resolvedParsed, continueParam) ==
    IF resolvedParsed.hostname = AuthHost /\ continueParam.found
       /\ continueParam.value # ""
    THEN ContinueUrlHost(resolvedParsed, ParseURL(continueParam.value))
    ELSE [threw |-> FALSE, hostname |-> resolvedParsed.hostname]

ContinueHostUncaught(resolvedParsed) ==
    ContinueParamHostUncaught(resolvedParsed,
                              Get(searchParams(resolvedParsed), "continue"))

ContinueHost(resolvedParsed) ==
    ContinueParamHost(resolvedParsed, Get(searchParams(resolvedParsed), "continue"))

WarningText == "Warning: Could not fetch or parse page data. Using fallback values."

FallbackFrom(fallbackParsed) ==
    [threw |-> ~fallbackParsed.ok,
     warned |-> TRUE,
     hostname |-> fallbackParsed.hostname,
     pageTitle |-> fallbackParsed.hostname]

FallbackUncaught(url) ==
    [threw |-> TRUE, warned |-> FALSE, hostname |-> "", pageTitle |-> ""]

\* The catch block: the warning, then new URL(url) of the original argument;
\* that throws when the argument does not parse.
Fallback(url) == FallbackFrom(ParseURL(url))

\* The end of the try block: special is what the special case left.
ResolvedOr(url, special) ==
    IF special.threw THEN Fallback(url)
    ELSE [threw |-> FALSE,
          warned |-> FALSE,
          hostname |-> special.hostname,
          pageTitle |-> special.hostname]

\* resolvedParsed: new URL(response.url)
ResolveParsed(url, resolvedParsed) ==
    IF ~resolvedParsed.ok THEN Fallback(url)
    ELSE ResolvedOr(url, ContinueHost(resolvedParsed))

\* fetched: what fetch(url) did: [threw |-> it rejected, url |-> response.url]
fetchPageData(url, fetched) ==
    IF fetched.threw THEN Fallback(url)
    ELSE ResolveParsed(url, ParseURL(fetched.url))

(***************************************************************************)
(* The generated artifacts                                                 *)
(***************************************************************************)

\* process.cwd()
Cwd == "/home/user"

\* path.join of a directory and a name that holds no separator
Join(dir, name) == dir \o "/" \o name

FaviconUrl(host) ==
    "https://t0.gstatic.com/faviconV2?client=SOCIAL&type=FAVICON"
    \o "&fallback_opts=TYPE,SIZE,URL&url=https://" \o host \o "&size=64"

DirNameUnsanitized(title) == "quick-launch-" \o title

\* the folder name: 'quick-launch-' + sanitizeForFilename(pageTitle)
DirName(title) == "quick-launch-" \o sanitizeForFilename(title)

ManifestWrongIcon(title, defaultTarget) ==
    [manifest_version |-> 2,
     name |-> "QuickLaunch: " \o title,
     version |-> "1.0",
     description |-> "Opens a configurable URL when clicked. Default: " \o defaultTarget,
     browser_action |-> [default_title |-> "Go to " \o title,
                         default_icon |-> "icon64.png"],
     background |-> [scripts |-> <<"background.js">>, persistent |-> FALSE],
     options_page |-> "options.html",
     permissions |-> <<"tabs", "storage">>]

\* The manifest object; JSON.stringify keeps its fields, so the record stands
\* for the file's text.
Manifest(title, defaultTarget) ==
    [manifest_version |-> 2,
     name |-> "QuickLaunch: " \o title,
     version |-> "1.0",
     description |-> "Opens a configurable URL when clicked. Default: " \o defaultTarget,
     browser_action |-> [default_title |-> "Go to " \o title,
                         default_icon |-> "icon.png"],
     background |-> [scripts |-> <<"background.js">>, persistent |-> FALSE],
     options_page |-> "options.html",
     permissions |-> <<"tabs", "storage">>]

\* The icon paths a manifest refers to.
ManifestIcons(manifest) == {manifest.browser_action.default_icon}

\* The click handler's body after its first line (the same in the template
\* and in the inline script, up to the quote character).
ClickHandlerBody(q) ==
    "\n"
    \o "chrome.browserAction.onClicked.addListener(() => {\n"
    \o "  chrome.storage.sync.get(" \o q \o "targetUrl" \o q \o ", (data) => {\n"
    \o "    const url = data.targetUrl || DEFAULT_URL;\n"
    \o "    chrome.tabs.create({ url });\n"
    \o "  });\n"
    \o "});\n"

Placeholder == "__DEFAULT_URL__"

TemplateFirstLinePrefix == "const DEFAULT_URL = '"

\* The second listener of extensionTemplates/background.js.
NewTabListener ==
    "\n"
    \o "chrome.browserAction.onClicked.addListener(() => {\n"
    \o "  chrome.tabs.query({ active: true, currentWindow: true }, (tabs) => {\n"
    \o "    const currentTab = tabs[0];\n"
    \o "    // Define common new tab URLs for Chromium-based browsers.\n"
    \o "    const newTabUrls = ['chrome://newtab/', 'chrome://newtab', 'about:newtab', 'about:newtab/'];\n"
    \o "\n"
    \o "    if (currentTab && newTabUrls.includes(currentTab.url)) {\n"
    \o "      // If current tab is a new tab, update it with the target URL.\n"
    \o "      chrome.tabs.update(currentTab.id, { url: DEFAULT_URL });\n"
    \o "    } else {\n"
    \o "      // Otherwise, open the target URL in a new tab.\n"
    \o "      chrome.tabs.create({ url: DEFAULT_URL });\n"
    \o "    }\n"
    \o "  });\n"
    \o "});\n"

\* extensionTemplates/background.js
BackgroundTemplate ==
    TemplateFirstLinePrefix \o Placeholder \o "';\n" \o ClickHandlerBody("'")
    \o NewTabListener

InlineFirstLinePrefix == "const DEFAULT_URL = \""

\* background.js as each generation of main() renders it
BackgroundScript(v, defaultTarget) ==
    IF v = "template"
    THEN Replace(BackgroundTemplate, Placeholder, defaultTarget)
    ELSE InlineFirstLinePrefix \o defaultTarget \o "\";\n" \o ClickHandlerBody("\"")

\* The value the first line of a generated background.js gives DEFAULT_URL:
\* the text between the opening quote and the quote and semicolon that end the line.
EmbeddedDefault(script) ==
    LET eol == IndexOfStrFrom(script, "\n", 1)
        line == Slice(script, 1, eol - 1)
    IN  Slice(line, Len(TemplateFirstLinePrefix) + 1, Len(line) - 2)

\* options.html and options.js are copied without substitution.
OptionsHtml == "<!DOCTYPE html> ... <script src=\"options.js\"></script> ..."

OptionsScript == "document.addEventListener('DOMContentLoaded', () => { ... });"

\* the favicon service's payload, written as it comes
IconBytes == "<image bytes>"

(***************************************************************************)
(* Console                                                                 *)
(***************************************************************************)

Line(stream, text) == [stream |-> stream, text |-> text]

SuccessPrefix == "Chrome extension created successfully in folder \""

SuccessLines(dir) ==
    << Line("stdout", SuccessPrefix \o dir \o "\"."),
       Line("stdout", "Load it in Chrome via chrome://extensions (with Developer Mode enabled) using \"Load unpacked\"."),
       Line("stdout", "Use the Options page to change the target URL.") >>

IsSuccessLine(l) == l.stream = "stdout" /\ StartsWith(l.text, SuccessPrefix)

IsErrorLine(l) == l.stream = "stderr" /\ StartsWith(l.text, "Error")

IsWarningLine(l) == l.stream = "stderr" /\ StartsWith(l.text, "Warning")

\* what the runtime prints for an exception nothing caught
IsUncaughtLine(l) == l.stream = "stderr" /\ StartsWith(l.text, "Uncaught")

(***************************************************************************)
(* The environment: arguments, the network, the file system                *)
(***************************************************************************)

Urls ==
    { "https://mail.google.com/?authuser=me@example.com#inbox",
      "https://Example.COM:8080/Path",
      "https://accounts.google.com/?continue=https%3A%2F%2Fmail.example.com%2F",
      "https://shop.example.com/?price=$$5",
      "git://GitHub.com/stoikerty/QuickLaunch",
      "mailto:me@example.com",
      "notaurl",
      "https://bad host/",
      "" }

Suffixes == {"beta"}

\* process.argv.slice(2): nothing, a URL, or a URL and a suffix
Argvs ==
    {<<>>} \cup {<<u>> : u \in Urls} \cup {<<u, x>> : u \in Urls, x \in Suffixes}

\* Where a page fetch may end up after its redirects, besides the URL asked for.
RedirectTargets ==
    { "https://accounts.google.com/ServiceLogin?service=mail&continue=https%3A%2F%2Fmail.example.com%2Fmail%2F",
      "https://accounts.google.com/?continue=https://Mail.Example.com:8443/inbox",
      "https://accounts.google.com/?continue=notaurl",
      "https://accounts.google.com/?continue=",
      "https://accounts.google.com/?continue",
      "https://accounts.google.com/?continue=notaurl&continue=https://mail.example.com/",
      "https://accounts.google.com/signin",
      "https://www.example.org/?continue=https://mail.example.com/",
      "" }

\* fetch(url): it rejects, or (for http and https only) resolves with a
\* response whose url is the final one
PageFetches(url) ==
    {[threw |-> TRUE, url |-> ""]}
    \cup {[threw |-> FALSE, url |-> r] :
            r \in IF ParseURL(url).protocol \in {"http:", "https:"}
                  THEN {url} \cup RedirectTargets
                  ELSE {}}

\* fetch(faviconUrl): it rejects, or resolves with a status; bodyOk: whether
\* response.arrayBuffer() resolves
IconFetches ==
    { [threw |-> TRUE,  ok |-> FALSE, status |-> 0,   bodyOk |-> FALSE],
      [threw |-> FALSE, ok |-> FALSE, status |-> 404, bodyOk |-> TRUE],
      [threw |-> FALSE, ok |-> FALSE, status |-> 500, bodyOk |-> TRUE],
      [threw |-> FALSE, ok |-> TRUE,  status |-> 200, bodyOk |-> FALSE],
      [threw |-> FALSE, ok |-> TRUE,  status |-> 200, bodyOk |-> TRUE] }

\* What a file-system call of a step does.
IoResults == {"ok", "readFails", "writeFails"}

(***************************************************************************)
(* main()                                                                  *)
(***************************************************************************)

\* process.argv[2]; undefined is modelled by "", which is falsy as well
InputUrl == IF Len(argv) >= 1 THEN argv[1] ELSE ""

\* process.exit(1) after the lines given
ExitWith(lines) ==
    /\ out' = out \o lines
    /\ pc' = "exited"
    /\ exitCode' = 1

\* An exception no handler catches: main()'s promise rejects, the runtime
\* prints the error and the process ends with status 1.
Crash(message) == ExitWith(<<Line("stderr", "Uncaught " \o message)>>)

WriteFile(name, content) == files' = (name :> content) @@ files

ValidateArgsNoExit ==
    /\ pc = "start"
    /\ out' = IF InputUrl = ""
              THEN out \o <<Line("stderr", "Error: No URL provided.")>>
              ELSE IF ~ParseURL(InputUrl).ok
              THEN out \o <<Line("stderr", "Error: Invalid URL provided.")>>
              ELSE out
    /\ pc' = "fetchPage"
    /\ UNCHANGED <<variant, argv, exitCode, requests, hostname, pageTitle, extensionDir,
                   dirExisted, mkdirs, files, pageFetch, iconFetch, sanVars>>

\* The argument is read and validated.
ValidateArgs ==
    /\ pc = "start"
    /\ IF InputUrl = ""
       THEN ExitWith(<<Line("stderr", "Error: No URL provided."),
                       Line("stderr", "Usage: bun run createExtension.ts <DEFAULT_URL>")>>)
       ELSE IF ~ParseURL(InputUrl).ok
       THEN ExitWith(<<Line("stderr", "Error: Invalid URL provided.")>>)
       ELSE /\ pc' = "fetchPage"
            /\ UNCHANGED <<out, exitCode>>
    /\ UNCHANGED <<variant, argv, requests, hostname, pageTitle, extensionDir,
                   dirExisted, mkdirs, files, pageFetch, iconFetch, sanVars>>

\* r: what fetchPageData returned, or that it threw
Resolved(fetched, r) ==
    /\ requests' = Append(requests, InputUrl)
    /\ pageFetch' = <<fetched>>
    /\ IF r.threw
       THEN /\ ExitWith((IF r.warned THEN <<Line("stderr", WarningText)>> ELSE <<>>)
                        \o <<Line("stderr", "Uncaught TypeError: Invalid URL")>>)
            /\ UNCHANGED <<hostname, pageTitle, extensionDir>>
       ELSE /\ out' = out \o (IF r.warned THEN <<Line("stderr", WarningText)>> ELSE <<>>)
            /\ hostname' = r.hostname
            /\ pageTitle' = r.pageTitle
            /\ extensionDir' = Join(Cwd, DirName(r.pageTitle))
            /\ pc' = "mkdir"
            /\ UNCHANGED exitCode

\* await fetchPageData(inputUrl), then the favicon URL and the folder name
ResolveIdentity ==
    /\ pc = "fetchPage"
    /\ \E fetched \in PageFetches(InputUrl) :
         Resolved(fetched, fetchPageData(InputUrl, fetched))
    /\ UNCHANGED <<variant, argv, dirExisted, mkdirs, files, iconFetch, sanVars>>

\* if (!existsSync(extensionDir)) mkdirSync(extensionDir)
MakeDir ==
    /\ pc = "mkdir"
    /\ \E exists \in BOOLEAN, io \in {"ok", "writeFails"} :
         /\ exists => io = "ok"
         /\ dirExisted' = exists
         /\ IF exists
            THEN /\ pc' = "manifest"
                 /\ UNCHANGED <<mkdirs, out, exitCode>>
            ELSE IF io = "ok"
            THEN /\ mkdirs' = mkdirs \cup {extensionDir}
                 /\ pc' = "manifest"
                 /\ UNCHANGED <<out, exitCode>>
            ELSE /\ Crash("Error: EACCES: permission denied, mkdir")
                 /\ UNCHANGED mkdirs
    /\ UNCHANGED <<variant, argv, requests, hostname, pageTitle, extensionDir,
                   files, pageFetch, iconFetch, sanVars>>

\* One of the four text files: the template variant reads its source first.
\* reads: whether this step reads a template file.
WriteStep(at, next, reads, name, content) ==
    /\ pc = at
    /\ \E io \in IoResults :
         /\ io = "readFails" => reads
         /\ IF io = "ok"
            THEN /\ WriteFile(name, content)
                 /\ pc' = next
                 /\ UNCHANGED <<out, exitCode>>
            ELSE /\ Crash(IF io = "readFails"
                          THEN "Error: ENOENT: no such file or directory, open"
                          ELSE "Error: EACCES: permission denied, open")
                 /\ UNCHANGED files
    /\ UNCHANGED <<variant, argv, requests, hostname, pageTitle, extensionDir,
                   dirExisted, mkdirs, pageFetch, iconFetch, sanVars>>

WriteManifest ==
    WriteStep("manifest", "background", FALSE,
              "manifest.json", Manifest(pageTitle, InputUrl))

WriteBackground ==
    WriteStep("background", "optionsHtml", variant = "template",
              "background.js", BackgroundScript(variant, InputUrl))

WriteOptionsHtml ==
    WriteStep("optionsHtml", "optionsJs", variant = "template",
              "options.html", OptionsHtml)

WriteOptionsJs ==
    WriteStep("optionsJs", "favicon", variant = "template",
              "options.js", OptionsScript)

\* The message of the error the try block of the download throws.
IconError(res, io) ==
    IF res.threw THEN "fetch failed"
    ELSE IF ~res.ok THEN "Failed to fetch favicon. Status: " \o ToString(res.status)
    ELSE IF ~res.bodyOk THEN "body stream failed"
    ELSE "EACCES: permission denied, open"

DownloadFaviconNoStatusCheck ==
    /\ pc = "favicon"
    /\ \E res \in IconFetches, io \in {"ok", "writeFails"} :
         /\ requests' = Append(requests, FaviconUrl(hostname))
         /\ iconFetch' = <<res>>
         /\ IF ~res.threw /\ res.bodyOk /\ io = "ok"
            THEN /\ WriteFile("icon.png", IconBytes)
                 /\ out' = out \o SuccessLines(extensionDir)
                 /\ pc' = "done"
                 /\ exitCode' = 0
            ELSE /\ ExitWith(<<Line("stderr",
                                    "Error downloading favicon: " \o IconError(res, io))>>)
                 /\ UNCHANGED files
    /\ UNCHANGED <<variant, argv, hostname, pageTitle, extensionDir, dirExisted,
                   mkdirs, pageFetch, sanVars>>

DownloadFaviconEagerSuccess ==
    /\ pc = "favicon"
    /\ \E res \in IconFetches, io \in {"ok", "writeFails"} :
         /\ requests' = Append(requests, FaviconUrl(hostname))
         /\ iconFetch' = <<res>>
         /\ IF ~res.threw /\ res.ok /\ res.bodyOk /\ io = "ok"
            THEN /\ WriteFile("icon.png", IconBytes)
                 /\ out' = out \o SuccessLines(extensionDir)
                 /\ pc' = "done"
                 /\ exitCode' = 0
            ELSE /\ out' = out \o SuccessLines(extensionDir)
                           \o <<Line("stderr",
                                     "Error downloading favicon: " \o IconError(res, io))>>
                 /\ pc' = "exited"
                 /\ exitCode' = 1
                 /\ UNCHANGED files
    /\ UNCHANGED <<variant, argv, hostname, pageTitle, extensionDir, dirExisted,
                   mkdirs, pageFetch, sanVars>>

\* The favicon is fetched and saved as icon.png; the success lines follow the
\* write, and whatever the try block throws ends the run with status 1.
DownloadFavicon ==
    /\ pc = "favicon"
    /\ \E res \in IconFetches, io \in {"ok", "writeFails"} :
         /\ requests' = Append(requests, FaviconUrl(hostname))
         /\ iconFetch' = <<res>>
         /\ IF ~res.threw /\ res.ok /\ res.bodyOk /\ io = "ok"
            THEN /\ WriteFile("icon.png", IconBytes)
                 /\ out' = out \o SuccessLines(extensionDir)
                 /\ pc' = "done"
                 /\ exitCode' = 0
            ELSE /\ ExitWith(<<Line("stderr",
                                    "Error downloading favicon: " \o IconError(res, io))>>)
                 /\ UNCHANGED files
    /\ UNCHANGED <<variant, argv, hostname, pageTitle, extensionDir, dirExisted,
                   mkdirs, pageFetch, sanVars>>

Init ==
    /\ variant \in {"template", "inline"}
    /\ argv \in Argvs
    /\ pc = "start"
    /\ exitCode = -1
    /\ out = <<>>
    /\ requests = <<>>
    /\ hostname = ""
    /\ pageTitle = ""
    /\ extensionDir = ""
    /\ dirExisted = FALSE
    /\ mkdirs = {}
    /\ files = <<>>
    /\ pageFetch = <<>>
    /\ iconFetch = <<>>
    /\ sanIn = "" /\ sanOut = "" /\ sanOut2 = "" /\ sanPc = "off"

Next ==
    \/ ValidateArgs
    \/ ResolveIdentity
    \/ MakeDir
    \/ WriteManifest
    \/ WriteBackground
    \/ WriteOptionsHtml
    \/ WriteOptionsJs
    \/ DownloadFavicon

Spec == Init /\ [][Next]_vars

(***************************************************************************)
(* sanitizeForFilename applied once and twice to every short string        *)
(***************************************************************************)

SanAlphabet == {"a", "B", " ", "/", "<", "-"}

RECURSIVE StringsUpTo(_)
StringsUpTo(n) ==
    IF n = 0 THEN {""}
    ELSE StringsUpTo(n - 1)
         \cup {x \o c : x \in {y \in StringsUpTo(n - 1) : Len(y) = n - 1}, c \in SanAlphabet}

SanitizeOnce ==
    /\ sanPc = "in"
    /\ sanOut' = sanitizeForFilename(sanIn)
    /\ sanPc' = "once"
    /\ UNCHANGED <<sanIn, sanOut2, mainVars>>

SanitizeTwice ==
    /\ sanPc = "once"
    /\ sanOut2' = sanitizeForFilename(sanOut)
    /\ sanPc' = "twice"
    /\ UNCHANGED <<sanIn, sanOut, mainVars>>

SanInit ==
    /\ sanIn \in StringsUpTo(MaxLen)
    /\ sanOut = "" /\ sanOut2 = "" /\ sanPc = "in"
    /\ variant = "inline" /\ argv = <<>> /\ pc = "off" /\ exitCode = -1
    /\ out = <<>> /\ requests = <<>> /\ hostname = "" /\ pageTitle = ""
    /\ extensionDir = "" /\ dirExisted = FALSE /\ mkdirs = {} /\ files = <<>>
    /\ pageFetch = <<>> /\ iconFetch = <<>>

SanNext == SanitizeOnce \/ SanitizeTwice

SanSpec == SanInit /\ [][SanNext]_vars

(***************************************************************************)
(* Properties                                                              *)
(***************************************************************************)

Written == DOMAIN files

NoSuccessLine == \A i \in 1..Len(out) : ~IsSuccessLine(out[i])

NoWarningLine == \A i \in 1..Len(out) : ~IsWarningLine(out[i])

NoFailureLine ==
    \A i \in 1..Len(out) : ~IsErrorLine(out[i]) /\ ~IsUncaughtLine(out[i])

IconFetchFailed ==
    iconFetch # <<>> /\ (iconFetch[1].threw \/ ~iconFetch[1].ok)

\* C1: once the favicon fetch has rejected or answered with a non-success
\* status, the run has ended with a non-zero exit status, it has printed no
\* success line and it has written no icon, whatever the earlier steps did.
C1_IconFetchFailureIsFatal ==
    IconFetchFailed =>
        /\ pc = "exited"
        /\ exitCode > 0
        /\ NoSuccessLine
        /\ "icon.png" \notin Written

\* A 404 from the favicon service after every earlier step succeeded.
C1_Witness ==
    /\ iconFetch # <<>> /\ ~iconFetch[1].threw /\ iconFetch[1].status = 404
    /\ Written = {"manifest.json", "background.js", "options.html", "options.js"}
    /\ exitCode = 1

ResolutionFailed ==
    pageFetch # <<>> /\ (pageFetch[1].threw \/ ~ParseURL(pageFetch[1].url).ok)

\* C2: when the page fetch rejects or its final URL does not parse,
\* fetchPageData returns the original URL's host name (the host component,
\* without the port) as hostname and as pageTitle, and nothing is thrown.
C2_FallbackOnFailedResolution ==
    (ParseURL(InputUrl).ok /\ ResolutionFailed) =>
        /\ hostname = ParseURL(InputUrl).hostname
        /\ pageTitle = ParseURL(InputUrl).hostname
        /\ (InputUrl = "https://Example.COM:8080/Path" => hostname = "example.com")
        /\ \A i \in 1..Len(out) : out[i].text # "Uncaught TypeError: Invalid URL"

\* The response's final URL is the empty string; the input has a port and
\* upper-case letters in its host.
C2_Witness ==
    /\ pageFetch # <<>> /\ ~pageFetch[1].threw /\ pageFetch[1].url = ""
    /\ InputUrl = "https://Example.COM:8080/Path"
    /\ hostname = "example.com"
    /\ pc = "mkdir"

\* The final URL of the page fetch, parsed, when there is one.
FinalUrl == ParseURL(pageFetch[1].url)

\* The continue parameter as the code reads it: searchParams.get('continue').
ContinueParam == Get(searchParams(FinalUrl), "continue")

ResolvedAtAuthHost ==
    /\ pageFetch # <<>> /\ ~pageFetch[1].threw
    /\ FinalUrl.ok /\ FinalUrl.hostname = AuthHost

\* C5: when the page fetch succeeds, the final URL's host is
\* accounts.google.com and its continue parameter is a well-formed absolute
\* URL, hostname and pageTitle are the host of that continue URL.
C5_ContinueHostReplacesAuthHost ==
    /\ (ResolvedAtAuthHost /\ ContinueParam.found /\ ParseURL(ContinueParam.value).ok) =>
          /\ hostname = ParseURL(ContinueParam.value).hostname
          /\ pageTitle = hostname
    /\ (pageFetch # <<>> /\ ~pageFetch[1].threw /\ pageFetch[1].url \in
            {"https://accounts.google.com/ServiceLogin?service=mail&continue=https%3A%2F%2Fmail.example.com%2Fmail%2F",
             "https://accounts.google.com/?continue=https://Mail.Example.com:8443/inbox",
             "https://accounts.google.com/?continue=https%3A%2F%2Fmail.example.com%2F"}) =>
          /\ hostname = "mail.example.com"
          /\ pageTitle = "mail.example.com"

\* A login redirect with a percent-encoded continue URL, from another site.
C5_Witness ==
    /\ pageFetch # <<>> /\ ~pageFetch[1].threw
    /\ pageFetch[1].url = "https://accounts.google.com/ServiceLogin?service=mail&continue=https%3A%2F%2Fmail.example.com%2Fmail%2F"
    /\ InputUrl = "https://mail.google.com/?authuser=me@example.com#inbox"
    /\ hostname = "mail.example.com"
    /\ pc = "done"

\* C6: when the final URL's host is accounts.google.com and its continue
\* parameter is empty or does not parse as a URL, hostname and pageTitle stay
\* accounts.google.com and no fallback warning is printed.
C6_UnparseableContinueKeepsAuthHost ==
    (ResolvedAtAuthHost /\ ContinueParam.found /\ ~ParseURL(ContinueParam.value).ok) =>
        /\ hostname = AuthHost
        /\ pageTitle = AuthHost
        /\ NoWarningLine

\* continue=notaurl reached from a URL of another host.
C6_Witness ==
    /\ pageFetch # <<>> /\ ~pageFetch[1].threw
    /\ pageFetch[1].url = "https://accounts.google.com/?continue=notaurl"
    /\ InputUrl = "https://shop.example.com/?price=$$5"
    /\ hostname = AuthHost
    /\ pc = "done"

\* C7: a missing URL argument, or one that does not parse, ends the run with
\* a non-zero status at once: no request has been made, no directory created
\* and no file written.
C7_InvalidUrlExitsBeforeAnyEffect ==
    ((InputUrl = "" \/ ~ParseURL(InputUrl).ok) /\ pc # "start") =>
        /\ pc = "exited"
        /\ exitCode > 0
        /\ requests = <<>> /\ pageFetch = <<>> /\ iconFetch = <<>>
        /\ mkdirs = {}
        /\ Written = {}
        /\ NoSuccessLine

\* An argument with a space in its host, after validation.
C7_Witness ==
    /\ InputUrl = "https://bad host/"
    /\ pc = "exited"
    /\ out = <<Line("stderr", "Error: Invalid URL provided.")>>

\* C8: sanitizeForFilename is idempotent.
C8_SanitizeIdempotent ==
    sanPc = "twice" => sanOut2 = sanOut

\* An input with an illegal character, white space inside and an upper-case
\* letter, sanitized twice.
C8_Witness ==
    /\ sanPc = "twice"
    /\ sanIn = "/ B"
    /\ sanOut = "b"

GeneratorRuns == sanPc = "off"

C3_EmbeddedDefaultIsInputUrl ==
    "background.js" \in Written =>
        EmbeddedDefault(files["background.js"]) = InputUrl

\* C9 as the specification states it: a finished run has printed exactly one
\* line, a success confirmation holding the output path or an error.
C9_ExactlyOneLine ==
    (GeneratorRuns /\ exitCode # -1) =>
        /\ Len(out) = 1
        /\ \/ IsSuccessLine(out[1]) /\ IndexOfStrFrom(out[1].text, extensionDir, 1) # 0
           \/ IsErrorLine(out[1])

SuccessLineCount == Cardinality({i \in 1..Len(out) : IsSuccessLine(out[i])})

\* C9, amended: a run prints no success or error line before it ends; it
\* ends either with status 0, exactly one success confirmation, which holds
\* the output path, and no error, or with a non-zero status, an error and no
\* success confirmation.
C9_SuccessOrErrorNeverBoth ==
    GeneratorRuns =>
        /\ exitCode = -1 => NoSuccessLine /\ NoFailureLine
        /\ exitCode # -1 =>
             \/ /\ exitCode = 0
                /\ SuccessLineCount = 1
                /\ \A i \in 1..Len(out) :
                      IsSuccessLine(out[i]) =>
                          IndexOfStrFrom(out[i].text, extensionDir, 1) # 0
                /\ NoFailureLine
             \/ /\ exitCode > 0
                /\ NoSuccessLine
                /\ ~NoFailureLine
                /\ LET last == out[Len(out)]
                   IN  IsErrorLine(last) \/ IsUncaughtLine(last)
                       \/ (Len(out) >= 2 /\ IsErrorLine(out[Len(out) - 1]))

\* A successful run whose resolution fell back: a warning, the success
\* confirmation and the two hints.
C9_Witness ==
    /\ pc = "done"
    /\ Len(out) = 4
    /\ IsWarningLine(out[1])
    /\ IsSuccessLine(out[2])

\* C10: after a successful run every icon path of the written manifest names
\* a file the run wrote, and the run wrote the one icon, icon.png.
C10_ManifestIconsWritten ==
    pc = "done" =>
        /\ "manifest.json" \in Written
        /\ ManifestIcons(files["manifest.json"]) \subseteq Written
        /\ ManifestIcons(files["manifest.json"]) = {"icon.png"}
        /\ Written = {"manifest.json", "background.js", "options.html",
                      "options.js", "icon.png"}
        /\ files["icon.png"] = IconBytes

\* Success into a folder that already existed.
C10_Witness ==
    /\ pc = "done"
    /\ dirExisted
    /\ files["manifest.json"].browser_action.default_icon = "icon.png"
    /\ "icon.png" \in Written

====
